---------------------------- MODULE Spec2Model ----------------------------
(***************************************************************************)
(* VSFS consistency checker (src/vsfsck.c): the five audit passes over the *)
(* in-memory image, and main() that sequences them, re-audits and writes   *)
(* the image back.                                                         *)
(*                                                                         *)
(* The image is a map from 32-bit word addresses (block * 1024 + index) to *)
(* word values.  Only the words of a bounded support are stored; every     *)
(* other word of the 64 * 1024 words is 0.  The checker stores nothing but *)
(* 0 into pointer words, so words that are 0 in the input stay 0, and the  *)
(* loops over the 1024 entries of a container skip entries that are 0      *)
(* (vsfsck.c:459, 491, 503, 535, 547, 559 and, since 0 < 64, 621..715), so *)
(* a loop over the stored words of a block, in ascending order, is the     *)
(* loop of the code.  Words are little-endian (spec section 6); all word   *)
(* values of the modelled images are below 2^31.                           *)
(***************************************************************************)
EXTENDS Integers, Sequences, FiniteSets, TLC

(* ---------------- program constants (vsfsck.c:11..23) ------------------ *)
BLOCK_SIZE == 4096
TOTAL_BLOCKS == 64
MAGIC_BYTES == 54093
INODE_SIZE == 256
INODE_COUNT == 80
SUPERBLOCK_NUM == 0
INODE_BITMAP_BLOCK_NUM == 1
DATA_BITMAP_BLOCK_NUM == 2
INODE_TABLE_START_BLOCK_NUM == 3
INODE_TABLE_BLOCKS == 5
DATA_BLOCK_START_NUM == 8
DATA_BLOCKS_COUNT == 56

(* sizeof(uint32_t): the width of a pointer word *)
WORD_BYTES == 4
(* BLOCK_SIZE / sizeof(uint32_t), the entries of an indirect container *)
entries_per_block == BLOCK_SIZE \div WORD_BYTES
(* sizeof(inode_t) in 32-bit words: fourteen uint32_t fields and           *)
(* reserved[156], 212 bytes (not INODE_SIZE); &inode_table[i] is i times   *)
(* this many words past the start of block 3                               *)
INODE_FIELD_COUNT == 14
INODE_RESERVED_BYTES == 156
inode_words == (INODE_FIELD_COUNT * WORD_BYTES + INODE_RESERVED_BYTES) \div WORD_BYTES
(* bits of one 32-bit word *)
WORD_BITS == 32

(* word offsets of the inode_t fields (vsfsck.c:44..60) *)
OFF_mode == 0
OFF_dtime == 7
OFF_links_count == 8
OFF_direct_block == 10
OFF_single_indirect == 11
OFF_double_indirect == 12
OFF_triple_indirect == 13

(* ---------------- bounds of the model ---------------------------------- *)
(* at most MaxPtrs pointer words of an input image are non-zero *)
MaxPtrs == 3
(* the program is run at most MaxRuns times in a row on the same file *)
MaxRuns == 2

NULL == -1

(* ---------------- the image -------------------------------------------- *)
(* the word at address a of image img *)
Rd(img, a) == IF a \in DOMAIN img THEN img[a] ELSE 0

(* img with the word at address a set to v *)
Wr(img, a, v) ==
    [x \in (DOMAIN img) \cup {a} |-> IF x = a THEN v ELSE img[x]]

(* get_block: the word address of the first byte of block block_num *)
get_block(block_num) ==
    IF block_num < 0 \/ block_num >= TOTAL_BLOCKS
    THEN NULL
    ELSE block_num * entries_per_block

(* main's overlays: superblock, inode_bitmap, data_bitmap, inode_table *)
superblock == get_block(SUPERBLOCK_NUM)
inode_bitmap == get_block(INODE_BITMAP_BLOCK_NUM)
data_bitmap == get_block(DATA_BITMAP_BLOCK_NUM)
inode_table == get_block(INODE_TABLE_START_BLOCK_NUM)

(* &inode_table[i], and the address of one of its fields *)
InodeAddr(i) == inode_table + i * inode_words
FieldAddr(i, off) == InodeAddr(i) + off

Pow2(k) == 2 ^ k
(* bit k of word w; word values are below 2^31, so bit 31 is clear *)
BitOf(w, k) == IF k = WORD_BITS - 1 THEN FALSE ELSE (w \div Pow2(k)) % 2 = 1

(* is_bit_set / set_bit / clear_bit on the bitmap at word address bitmap;  *)
(* byte bit_num / 8, bit bit_num % 8 is bit bit_num % 32 of word           *)
(* bit_num / 32 in little-endian order                                     *)
is_bit_set(img, bitmap, bit_num) ==
    BitOf(Rd(img, bitmap + bit_num \div WORD_BITS), bit_num % WORD_BITS)

set_bit(img, bitmap, bit_num) ==
    LET a == bitmap + bit_num \div WORD_BITS
        w == Rd(img, a)
    IN  IF BitOf(w, bit_num % WORD_BITS)
        THEN img
        ELSE Wr(img, a, w + Pow2(bit_num % WORD_BITS))

clear_bit(img, bitmap, bit_num) ==
    LET a == bitmap + bit_num \div WORD_BITS
        w == Rd(img, a)
    IN  IF BitOf(w, bit_num % WORD_BITS)
        THEN Wr(img, a, w - Pow2(bit_num % WORD_BITS))
        ELSE img

(* is_inode_valid(&inode_table[i]) *)
is_inode_valid(img, i) ==
    /\ Rd(img, FieldAddr(i, OFF_links_count)) > 0
    /\ Rd(img, FieldAddr(i, OFF_dtime)) = 0

(* the elements of a set of numbers in ascending order *)
SortedSeq(S) ==
    [n \in 1 .. Cardinality(S) |->
        CHOOSE x \in S : Cardinality({y \in S : y < x}) = n - 1]

(* the addresses of the non-zero words of the block at base, ascending:    *)
(* the entries that a loop over the 1024 entries of the block does not     *)
(* skip. The duplicate and bad block passes write nothing but 0, so an     *)
(* entry that is 0 when its loop starts is 0 when the loop reaches it      *)
BlockWords(img, base) ==
    SortedSeq({a \in DOMAIN img : /\ a >= base
                                  /\ a < base + entries_per_block
                                  /\ img[a] /= 0})

(* the inodes a loop over the INODE_COUNT inodes can find live or marked:  *)
(* those with a stored word, in ascending order                            *)
StoredInodes(img) ==
    {(a - inode_table) \div inode_words :
        a \in {x \in DOMAIN img : x >= inode_table
                                  /\ x < InodeAddr(INODE_COUNT)}}

(* the positions of the bits set in word w, counted from position k *)
BitsFrom(w, k) == {k + j : j \in {x \in 0 .. WORD_BITS - 1 : BitOf(w, x)}}

(* the bit numbers below nbits that is_bit_set finds set in a bitmap *)
SetBits(img, bitmap, nbits) ==
    UNION {{b \in BitsFrom(Rd(img, bitmap + w), w * WORD_BITS) : b < nbits}
              : w \in 0 .. (nbits - 1) \div WORD_BITS}

(* one diagnostic line: kind and three numbers *)
Finding(kind, x, y, z) == <<kind, x, y, z>>


(* ---------------- 1. superblock validator ------------------------------ *)
(* the nine fields in the order validate_superblock checks them: the word  *)
(* of block 0 that holds the field (superblock_t is not packed: magic is   *)
(* the low half of word 0, the other fields are words 1..8)                *)
SbRequired ==
    <<MAGIC_BYTES, BLOCK_SIZE, TOTAL_BLOCKS, INODE_BITMAP_BLOCK_NUM,
      DATA_BITMAP_BLOCK_NUM, INODE_TABLE_START_BLOCK_NUM, DATA_BLOCK_START_NUM,
      INODE_SIZE, INODE_COUNT>>

SbFieldAddr(k) == superblock + (k - 1)

(* SbCheckField with the repair of the last field, inode_count, left out *)
SbCheckField_InodeCountNotFixed(v, k, fix) ==
    IF v /= SbRequired[k]
    THEN [word |-> IF fix /\ k < Len(SbRequired) THEN SbRequired[k] ELSE v,
          ok   |-> FALSE]
    ELSE [word |-> v, ok |-> TRUE]

(* one "if (superblock->f != F) { printf(...); if (fix) superblock->f = F; *)
(* isValid = false; }" on field k holding v: the field afterwards, and     *)
(* whether the check passed                                                *)
SbCheckField(v, k, fix) ==
    IF v /= SbRequired[k]
    THEN [word |-> IF fix THEN SbRequired[k] ELSE v, ok |-> FALSE]
    ELSE [word |-> v, ok |-> TRUE]

(* the nine checks, in the order of the code; each reads and writes its    *)
(* own field only                                                          *)
validate_superblock(img, fix) ==
    LET fields == 1 .. Len(SbRequired)
        chk(k) == SbCheckField(Rd(img, SbFieldAddr(k)), k, fix)
        wrong == SortedSeq({k \in fields : ~chk(k).ok})
    IN  [img   |-> [a \in (DOMAIN img) \cup {SbFieldAddr(k) : k \in fields} |->
                       IF a \in {SbFieldAddr(k) : k \in fields}
                       THEN chk(a - superblock + 1).word
                       ELSE img[a]],
         valid |-> wrong = <<>>,
         out   |-> [n \in 1 .. Len(wrong) |->
                       Finding("sb_field", wrong[n],
                               Rd(img, SbFieldAddr(wrong[n])), SbRequired[wrong[n]])]]

(* ---------------- 2. data bitmap checker ------------------------------- *)
TopLevelOffsets ==
    <<OFF_direct_block, OFF_single_indirect, OFF_double_indirect, OFF_triple_indirect>>

(* block_used taking an inode as valid when its inode-bitmap bit is set *)
block_used_FromInodeBitmap(img) ==
    LET ptrs == {Rd(img, FieldAddr(i, TopLevelOffsets[n])) :
                    i \in {x \in StoredInodes(img) : is_bit_set(img, inode_bitmap, x)},
                    n \in 1 .. 4}
    IN  {p - DATA_BLOCK_START_NUM :
            p \in {x \in ptrs : /\ x /= 0
                                /\ x - DATA_BLOCK_START_NUM >= 0
                                /\ x - DATA_BLOCK_START_NUM < DATA_BLOCKS_COUNT}}

(* first loop: block_used[], from the four pointers of every valid inode *)
block_used(img) ==
    LET ptrs == {Rd(img, FieldAddr(i, TopLevelOffsets[n])) :
                    i \in {x \in StoredInodes(img) : is_inode_valid(img, x)},
                    n \in 1 .. 4}
    IN  {p - DATA_BLOCK_START_NUM :
            p \in {x \in ptrs : /\ x /= 0
                                /\ x - DATA_BLOCK_START_NUM >= 0
                                /\ x - DATA_BLOCK_START_NUM < DATA_BLOCKS_COUNT}}

(* DbmStep reporting a marked block that no inode names without clearing  *)
(* its bit                                                                 *)
DbmStep_KeepsStaleBit(st, used, i, fix) ==
    LET bitmap_used == is_bit_set(st.img, data_bitmap, i)
    IN  IF i \in used /\ ~bitmap_used
        THEN [img   |-> IF fix THEN set_bit(st.img, data_bitmap, i) ELSE st.img,
              valid |-> FALSE,
              out   |-> Append(st.out,
                          Finding("dbm_unmarked", i + DATA_BLOCK_START_NUM, 0, 0))]
        ELSE IF i \notin used /\ bitmap_used
        THEN [img   |-> st.img,
              valid |-> FALSE,
              out   |-> Append(st.out,
                          Finding("dbm_unreferenced", i + DATA_BLOCK_START_NUM, 0, 0))]
        ELSE st

(* second loop, entry i *)
DbmStep(st, used, i, fix) ==
    LET bitmap_used == is_bit_set(st.img, data_bitmap, i)
    IN  IF i \in used /\ ~bitmap_used
        THEN [img   |-> IF fix THEN set_bit(st.img, data_bitmap, i) ELSE st.img,
              valid |-> FALSE,
              out   |-> Append(st.out,
                          Finding("dbm_unmarked", i + DATA_BLOCK_START_NUM, 0, 0))]
        ELSE IF i \notin used /\ bitmap_used
        THEN [img   |-> IF fix THEN clear_bit(st.img, data_bitmap, i) ELSE st.img,
              valid |-> FALSE,
              out   |-> Append(st.out,
                          Finding("dbm_unreferenced", i + DATA_BLOCK_START_NUM, 0, 0))]
        ELSE st

(* the loop over i < DATA_BLOCKS_COUNT; an entry whose bit agrees with      *)
(* block_used[i] changes nothing, so the loop runs over the others         *)
RECURSIVE DbmLoop(_, _, _, _)
DbmLoop(st, used, idxs, fix) ==
    IF idxs = <<>> THEN st
    ELSE DbmLoop(DbmStep(st, used, Head(idxs), fix), used, Tail(idxs), fix)

validate_data_bitmap(img, fix) ==
    LET used == block_used(img)
        marked == SetBits(img, data_bitmap, DATA_BLOCKS_COUNT)
        idxs == SortedSeq((used \ marked) \cup (marked \ used))
    IN  DbmLoop([img |-> img, valid |-> TRUE, out |-> <<>>], used, idxs, fix)

(* ---------------- 3. inode bitmap checker ------------------------------ *)
IbmStep(st, i, fix) ==
    LET is_valid == is_inode_valid(st.img, i)
        bitmap_used == is_bit_set(st.img, inode_bitmap, i)
    IN  IF is_valid /\ ~bitmap_used
        THEN [img   |-> IF fix THEN set_bit(st.img, inode_bitmap, i) ELSE st.img,
              valid |-> FALSE,
              out   |-> Append(st.out, Finding("ibm_unmarked", i, 0, 0))]
        ELSE IF ~is_valid /\ bitmap_used
        THEN [img   |-> IF fix THEN clear_bit(st.img, inode_bitmap, i) ELSE st.img,
              valid |-> FALSE,
              out   |-> Append(st.out, Finding("ibm_stale", i, 0, 0))]
        ELSE st

(* the loop over i < INODE_COUNT; an inode whose bit agrees with its        *)
(* validity changes nothing, so the loop runs over the others              *)
RECURSIVE IbmLoop(_, _, _)
IbmLoop(st, idxs, fix) ==
    IF idxs = <<>> THEN st
    ELSE IbmLoop(IbmStep(st, Head(idxs), fix), Tail(idxs), fix)

validate_inode_bitmap(img, fix) ==
    LET live == {i \in StoredInodes(img) : is_inode_valid(img, i)}
        marked == SetBits(img, inode_bitmap, INODE_COUNT)
        idxs == SortedSeq((live \ marked) \cup (marked \ live))
    IN  IbmLoop([img |-> img, valid |-> TRUE, out |-> <<>>], idxs, fix)

(* ---------------- 4. duplicate block checker --------------------------- *)
(* state of the pass: the image, isValid, the diagnostics, block_ref_count *)
(* (ref, the set of blocks b with block_ref_count[b] true), inode_refs     *)
(* (refs, on the blocks of ref; the other entries are 0 and never read)    *)
(* and the result of the last call of check_data_block_for_duplicates (ok) *)
InDataRegion(blk) == blk >= DATA_BLOCK_START_NUM /\ blk < TOTAL_BLOCKS

(* inode_refs[blk]: calloc gives 0 to the entries never assigned *)
inode_ref(st, blk) == IF blk \in DOMAIN st.refs THEN st.refs[blk] ELSE 0

check_data_block_for_duplicates(st, blk, ino, do_fix) ==
    IF InDataRegion(blk)
    THEN IF blk \in st.ref
         THEN [st EXCEPT !.ok = FALSE,
                         !.out = Append(@, Finding("dup", blk, inode_ref(st, blk), ino))]
         ELSE [st EXCEPT !.ok = TRUE, !.ref = @ \cup {blk},
                         !.refs = (blk :> ino) @@ @]
    ELSE [st EXCEPT !.ok = TRUE]

(* DupEntry with the entry zeroed without looking at fix *)
DupEntry_ZeroesInCheckMode(st, a, v, i, fix) ==
    LET c == check_data_block_for_duplicates(st, v, i, fix)
    IN  IF ~c.ok
        THEN [c EXCEPT !.valid = FALSE, !.img = Wr(@, a, 0)]
        ELSE c

(* "if (!check_data_block_for_duplicates(v, i, fix, inode_refs))           *)
(*      { isValid = false; if (fix) block[j] = 0; }" for the entry at a    *)
DupEntry(st, a, v, i, fix) ==
    LET c == check_data_block_for_duplicates(st, v, i, fix)
    IN  IF ~c.ok
        THEN [c EXCEPT !.valid = FALSE,
                       !.img = IF fix THEN Wr(@, a, 0) ELSE @]
        ELSE c

(* the loop over the entries of a single-indirect block: data leaves *)
RECURSIVE DupLeafLoop(_, _, _, _)
DupLeafLoop(st, addrs, i, fix) ==
    IF addrs = <<>> THEN st
    ELSE LET a == Head(addrs)
             data_block_num == Rd(st.img, a)
             st1 == IF data_block_num /= 0
                    THEN DupEntry(st, a, data_block_num, i, fix)
                    ELSE st
         IN  DupLeafLoop(st1, Tail(addrs), i, fix)

(* the loop over the entries of a double-indirect block: each non-zero     *)
(* entry is checked and then, whatever the check said, read as a           *)
(* single-indirect block when get_block gives a block                      *)
RECURSIVE DupDoubleLoop(_, _, _, _)
DupDoubleLoop(st, addrs, i, fix) ==
    IF addrs = <<>> THEN st
    ELSE LET a == Head(addrs)
             indirect_block_num == Rd(st.img, a)
             st1 == IF indirect_block_num = 0 THEN st
                    ELSE LET c == DupEntry(st, a, indirect_block_num, i, fix)
                             indirect_block == get_block(indirect_block_num)
                         IN  IF indirect_block /= NULL
                             THEN DupLeafLoop(c, BlockWords(c.img, indirect_block), i, fix)
                             ELSE c
         IN  DupDoubleLoop(st1, Tail(addrs), i, fix)

(* the loop over the entries of a triple-indirect block *)
RECURSIVE DupTripleLoop(_, _, _, _)
DupTripleLoop(st, addrs, i, fix) ==
    IF addrs = <<>> THEN st
    ELSE LET a == Head(addrs)
             double_indirect_block_num == Rd(st.img, a)
             st1 == IF double_indirect_block_num = 0 THEN st
                    ELSE LET c == DupEntry(st, a, double_indirect_block_num, i, fix)
                             double_indirect_block == get_block(double_indirect_block_num)
                         IN  IF double_indirect_block /= NULL
                             THEN DupDoubleLoop(c, BlockWords(c.img, double_indirect_block),
                                                i, fix)
                             ELSE c
         IN  DupTripleLoop(st1, Tail(addrs), i, fix)

(* one of the four top-level pointers of inode i: n = 1 direct, 2 single,  *)
(* 3 double, 4 triple indirect                                             *)
DupTopLevel(st, i, n, fix) ==
    LET a == FieldAddr(i, TopLevelOffsets[n])
        p == Rd(st.img, a)
    IN  IF p /= 0 /\ InDataRegion(p)
        THEN IF p \in st.ref
             THEN [st EXCEPT !.valid = FALSE,
                             !.out = Append(@, Finding("dup", p, inode_ref(st, p), i)),
                             !.img = IF fix THEN Wr(@, a, 0) ELSE @]
             ELSE LET m == [st EXCEPT !.ref = @ \cup {p}, !.refs = (p :> i) @@ @]
                      words == BlockWords(m.img, get_block(p))
                  IN  CASE n = 1 -> m
                        [] n = 2 -> DupLeafLoop(m, words, i, fix)
                        [] n = 3 -> DupDoubleLoop(m, words, i, fix)
                        [] n = 4 -> DupTripleLoop(m, words, i, fix)
        ELSE st

DupInode(st, i, fix) ==
    IF ~is_inode_valid(st.img, i) THEN st
    ELSE DupTopLevel(DupTopLevel(DupTopLevel(DupTopLevel(st, i, 1, fix),
                                             i, 2, fix), i, 3, fix), i, 4, fix)

(* the loop over i < INODE_COUNT; an inode with no stored word has         *)
(* links_count = 0 and is skipped, so the loop runs over the stored inodes *)
RECURSIVE DupInodeLoop(_, _, _)
DupInodeLoop(st, inodes, fix) ==
    IF inodes = <<>> THEN st
    ELSE DupInodeLoop(DupInode(st, Head(inodes), fix), Tail(inodes), fix)

(* block_ref_count that keeps the marks of the last call *)
ClearRefs_KeepsMarks(refcount) == refcount

(* memset(block_ref_count, 0, TOTAL_BLOCKS * sizeof(bool)), line 398 *)
ClearRefs(refcount) == refcount \ (0 .. TOTAL_BLOCKS - 1)

(* check_duplicate_blocks called with the global block_ref_count holding   *)
(* refcount: the memset, inode_refs = calloc(...), the loop                *)
DupPass(img, refcount, fix) ==
    DupInodeLoop([img   |-> img, valid |-> TRUE, out |-> <<>>,
                  ref   |-> ClearRefs(refcount),
                  refs  |-> [b \in {} |-> 0],
                  ok    |-> TRUE], SortedSeq(StoredInodes(img)), fix)

(* check_duplicate_blocks called for the first time in a process *)
check_duplicate_blocks(img, fix) == DupPass(img, {}, fix)

(* ---------------- 5. bad block checker --------------------------------- *)
(* BadSlot redirecting a bad pointer to the last block of the image *)
BadSlot_RedirectsToLastBlock(st, a, v, i, kind, fix) ==
    [img   |-> IF fix THEN Wr(st.img, a, TOTAL_BLOCKS - 1) ELSE st.img,
     valid |-> FALSE,
     out   |-> Append(st.out, Finding(kind, i, v, 0))]

(* "if (v >= TOTAL_BLOCKS) { ...; if (fix) slot = 0; isValid = false; }" *)
BadSlot(st, a, v, i, kind, fix) ==
    [img   |-> IF fix THEN Wr(st.img, a, 0) ELSE st.img,
     valid |-> FALSE,
     out   |-> Append(st.out, Finding(kind, i, v, 0))]

(* entries of a single-indirect block: data leaves *)
RECURSIVE BadLeafLoop(_, _, _, _, _)
BadLeafLoop(st, addrs, i, kind, fix) ==
    IF addrs = <<>> THEN st
    ELSE LET a == Head(addrs)
             data_block_num == Rd(st.img, a)
             st1 == IF data_block_num >= TOTAL_BLOCKS
                    THEN BadSlot(st, a, data_block_num, i, kind, fix)
                    ELSE st
         IN  BadLeafLoop(st1, Tail(addrs), i, kind, fix)

(* entries of a double-indirect block *)
RECURSIVE BadDoubleLoop(_, _, _, _, _, _)
BadDoubleLoop(st, addrs, i, kind, leafkind, fix) ==
    IF addrs = <<>> THEN st
    ELSE LET a == Head(addrs)
             indirect_block_num == Rd(st.img, a)
             st1 == IF indirect_block_num >= TOTAL_BLOCKS
                    THEN BadSlot(st, a, indirect_block_num, i, kind, fix)
                    ELSE IF indirect_block_num /= 0
                    THEN LET indirect_block == get_block(indirect_block_num)
                         IN  IF indirect_block /= NULL
                             THEN BadLeafLoop(st, BlockWords(st.img, indirect_block),
                                              i, leafkind, fix)
                             ELSE st
                    ELSE st
         IN  BadDoubleLoop(st1, Tail(addrs), i, kind, leafkind, fix)

(* entries of a triple-indirect block *)
RECURSIVE BadTripleLoop(_, _, _, _)
BadTripleLoop(st, addrs, i, fix) ==
    IF addrs = <<>> THEN st
    ELSE LET a == Head(addrs)
             double_indirect_block_num == Rd(st.img, a)
             st1 == IF double_indirect_block_num >= TOTAL_BLOCKS
                    THEN BadSlot(st, a, double_indirect_block_num, i,
                                 "bad_double_in_triple", fix)
                    ELSE IF double_indirect_block_num /= 0
                    THEN LET double_indirect_block == get_block(double_indirect_block_num)
                         IN  IF double_indirect_block /= NULL
                             THEN BadDoubleLoop(st,
                                    BlockWords(st.img, double_indirect_block), i,
                                    "bad_single_in_triple", "bad_data_in_triple", fix)
                             ELSE st
                    ELSE st
         IN  BadTripleLoop(st1, Tail(addrs), i, fix)

BadTopKind == <<"bad_direct", "bad_single", "bad_double", "bad_triple">>

(* BadTopLevel calling a pointer into blocks 1..7 bad as well *)
BadTopLevel_MetadataIsBad(st, i, n, fix) ==
    LET a == FieldAddr(i, TopLevelOffsets[n])
        p == Rd(st.img, a)
    IN  IF p >= TOTAL_BLOCKS \/ (p /= 0 /\ p < DATA_BLOCK_START_NUM)
        THEN BadSlot(st, a, p, i, BadTopKind[n], fix)
        ELSE IF n /= 1 /\ p /= 0
        THEN LET words == BlockWords(st.img, get_block(p))
             IN  CASE n = 2 -> BadLeafLoop(st, words, i, "bad_data_in_single", fix)
                   [] n = 3 -> BadDoubleLoop(st, words, i, "bad_indirect_in_double",
                                             "bad_data_in_double", fix)
                   [] n = 4 -> BadTripleLoop(st, words, i, fix)
        ELSE st

(* one of the four top-level pointers of inode i *)
BadTopLevel(st, i, n, fix) ==
    LET a == FieldAddr(i, TopLevelOffsets[n])
        p == Rd(st.img, a)
    IN  IF p >= TOTAL_BLOCKS
        THEN BadSlot(st, a, p, i, BadTopKind[n], fix)
        ELSE IF n /= 1 /\ p /= 0
        THEN LET blk == get_block(p)
             IN  IF blk = NULL THEN st
                 ELSE LET words == BlockWords(st.img, blk)
                      IN  CASE n = 2 -> BadLeafLoop(st, words, i, "bad_data_in_single", fix)
                            [] n = 3 -> BadDoubleLoop(st, words, i, "bad_indirect_in_double",
                                                      "bad_data_in_double", fix)
                            [] n = 4 -> BadTripleLoop(st, words, i, fix)
        ELSE st

BadInode(st, i, fix) ==
    IF ~is_inode_valid(st.img, i) THEN st
    ELSE BadTopLevel(BadTopLevel(BadTopLevel(BadTopLevel(st, i, 1, fix),
                                             i, 2, fix), i, 3, fix), i, 4, fix)

RECURSIVE BadInodeLoop(_, _, _)
BadInodeLoop(st, inodes, fix) ==
    IF inodes = <<>> THEN st
    ELSE BadInodeLoop(BadInode(st, Head(inodes), fix), Tail(inodes), fix)

check_bad_blocks(img, fix) ==
    BadInodeLoop([img |-> img, valid |-> TRUE, out |-> <<>>],
                 SortedSeq(StoredInodes(img)), fix)

(* ---------------- input images ----------------------------------------- *)
(* the inodes and the data blocks whose words an input image may set *)
ModelInodes == {0, 1}
(* pointer words an input may set: the four pointers of inode 0, the       *)
(* single-indirect pointer of inode 1, and entry 0 of block 8              *)
PtrSlots ==
    {FieldAddr(0, TopLevelOffsets[n]) : n \in 1 .. 4}
        \cup {FieldAddr(1, OFF_single_indirect)}
        \cup {get_block(8)}
(* values of a non-zero pointer word: a block of the inode table, two data *)
(* blocks, and a block number past the end of the image                    *)
PtrVals == {INODE_TABLE_START_BLOCK_NUM, 8, 9, 100}
(* (links_count, dtime) of an inode: live, live with many links, deleted,  *)
(* free                                                                    *)
Live == <<1, 0>>
LiveMany == <<100, 0>>
Deleted == <<1, 100>>
Free == <<0, 0>>

(* every stored word of an input image *)
MetaAddrs ==
    {SbFieldAddr(k) : k \in 1 .. Len(SbRequired)}
        \cup {inode_bitmap, data_bitmap}
        \cup {FieldAddr(i, off) : i \in ModelInodes,
                                  off \in {OFF_mode, OFF_dtime, OFF_links_count}}
        \cup {FieldAddr(i, TopLevelOffsets[n]) : i \in ModelInodes, n \in 1 .. 4}
ImageAddrs == MetaAddrs \cup PtrSlots

(* field k of a superblock whose fields in DOMAIN bad hold the wrong value *)
(* bad[k]                                                                  *)
SbWord(k, bad) == IF k \in DOMAIN bad THEN bad[k] ELSE SbRequired[k]
(* a valid superblock *)
NoBad == {[k \in {} |-> 0]}

(* the sets of at most MaxPtrs slots with their values *)
PtrConfigs ==
    UNION {[S -> PtrVals] : S \in {T \in SUBSET PtrSlots : Cardinality(T) <= MaxPtrs}}

(* the image with superblock fields bad wrong, pointer words ptrs, the     *)
(* liveness words lv of the modelled inodes and the first word of the two  *)
(* bitmaps                                                                 *)
MkImage(bad, ptrs, lv, ibm, dbm) ==
    ptrs
      @@ (inode_bitmap :> ibm) @@ (data_bitmap :> dbm)
      @@ [a \in {SbFieldAddr(k) : k \in 1 .. Len(SbRequired)} |->
             SbWord(a - superblock + 1, bad)]
      @@ [a \in {FieldAddr(i, OFF_links_count) : i \in ModelInodes} |->
             lv[(a - inode_table) \div inode_words + 1][1]]
      @@ [a \in {FieldAddr(i, OFF_dtime) : i \in ModelInodes} |->
             lv[(a - inode_table) \div inode_words + 1][2]]
      @@ [a \in ImageAddrs |-> 0]

(* ---------------- the pointer graph (spec sections 3 and glossary) ------ *)
(* the non-zero block numbers of the tree below pointer p, in visiting     *)
(* order and with repetitions; depth is the number of container levels     *)
(* below p: 0 for a data block, 1..3 for a single..triple indirect block   *)
RECURSIVE Tree(_, _, _), Under(_, _, _)
Tree(img, p, depth) ==
    IF p = 0 THEN <<>>
    ELSE IF depth > 0 /\ get_block(p) /= NULL
    THEN <<p>> \o Under(img, BlockWords(img, get_block(p)), depth - 1)
    ELSE <<p>>
Under(img, addrs, depth) ==
    IF addrs = <<>> THEN <<>>
    ELSE Tree(img, Rd(img, Head(addrs)), depth) \o Under(img, Tail(addrs), depth)

(* the pointer graph of inode i *)
Graph(img, i) ==
    Tree(img, Rd(img, FieldAddr(i, OFF_direct_block)), 0)
        \o Tree(img, Rd(img, FieldAddr(i, OFF_single_indirect)), 1)
        \o Tree(img, Rd(img, FieldAddr(i, OFF_double_indirect)), 2)
        \o Tree(img, Rd(img, FieldAddr(i, OFF_triple_indirect)), 3)

Range(s) == {s[n] : n \in 1 .. Len(s)}
LiveInodes(img) == {i \in StoredInodes(img) : is_inode_valid(img, i)}

(* the reference set of all live inodes, and their top-level pointers *)
ReferenceSet(img) == UNION {Range(Graph(img, i)) : i \in LiveInodes(img)}
TopLevelSet(img) ==
    {Rd(img, FieldAddr(i, TopLevelOffsets[n])) : i \in LiveInodes(img), n \in 1 .. 4}

RECURSIVE BitsWord(_)
BitsWord(S) ==
    IF S = {} THEN 0
    ELSE LET k == CHOOSE x \in S : TRUE IN Pow2(k) + BitsWord(S \ {k})

(* first word of the inode bitmap / data bitmap that agrees with img *)
IbmWordFor(img) == BitsWord(LiveInodes(img))
DbmWordFor(img, blocks) ==
    BitsWord({b - DATA_BLOCK_START_NUM : b \in {x \in blocks : InDataRegion(x)}})

(* the first words of the two bitmaps of an input whose other words are as *)
(* in img: "consistent" as section 3 requires, "empty" with no bit set,    *)
(* "full" with the bits of the modelled inodes and of blocks 8 and 9 set   *)
Bitmaps(img, kind) ==
    CASE kind = "consistent" ->
             <<IbmWordFor(img), DbmWordFor(img, ReferenceSet(img))>>
      [] kind = "empty" -> <<0, 0>>
      [] kind = "full" -> <<BitsWord(ModelInodes), DbmWordFor(img, {8, 9})>>

(* the kinds of input: (links_count, dtime) of inode 0 and the bitmaps;    *)
(* inode 1 is live                                                         *)
InputKinds ==
    {<<Live, "consistent">>, <<Live, "empty">>, <<LiveMany, "empty">>,
     <<Deleted, "full">>}

IMAGE_BYTES == TOTAL_BLOCKS * BLOCK_SIZE

(* ---------------- main ------------------------------------------------- *)
VARIABLES
    file,             \* the words of the image file
    file_size,        \* its length in bytes
    fix_errors,       \* argv[2] == "--fix"
    pc,               \* where main is
    phase,            \* "first": lines 805..809, "recheck": lines 824..828
    fs_image,         \* the image in memory
    block_ref_count,  \* the global array of the duplicate pass: the blocks marked
    valid,            \* the results of the passes, per phase
    out,              \* the diagnostics of the passes, per phase
    trace,            \* the passes called and the writes done by this run
    exit_status,      \* main's return value, -1 while running
    run,              \* number of this run of the program
    file0,            \* the words of the file when this run started
    fault,            \* the library call that fails when it is next made
    failed            \* an operational error has occurred in this run

vars == <<file, file_size, fix_errors, pc, phase, fs_image, block_ref_count,
          valid, out, trace, exit_status, run, file0, fault, failed>>

(* the library calls that can fail: fopen (line 751), malloc (771), fread  *)
(* (779), calloc of block_ref_count (791), calloc of block_used (252),     *)
(* calloc of inode_refs (401), fwrite (851)                                *)
Faults == {"fopen", "malloc", "fread", "calloc_block_ref_count",
           "calloc_block_used", "calloc_inode_refs", "fwrite"}
NoFault == "none"

Passes == <<"sb", "dbm", "ibm", "dup", "bad">>
Phases == {"first", "recheck"}
NoImage == [a \in {} |-> 0]
NoRefs == {}
NoResults == [ph \in Phases |-> [n \in {} |-> TRUE]]
NoOut == [ph \in Phases |-> <<>>]

(* an input: superblock fields bad wrong, pointer words ptrs, one of the    *)
(* kinds of input, a file of size bytes                                    *)
InitWith(badsets, ptrsets, kinds, sizes) ==
    /\ \E bad \in badsets, ptrs \in ptrsets, kind \in kinds :
          LET lv == <<kind[1], Live>>
              bm == Bitmaps(MkImage(bad, ptrs, lv, 0, 0), kind[2])
          IN  file = MkImage(bad, ptrs, lv, bm[1], bm[2])
    /\ file_size \in sizes
    /\ fix_errors \in BOOLEAN
    /\ pc = "open"
    /\ phase = "first"
    /\ fs_image = NoImage
    /\ block_ref_count = NoRefs
    /\ valid = NoResults
    /\ out = NoOut
    /\ trace = <<>>
    /\ exit_status = -1
    /\ run = 1
    /\ file0 = file
    /\ failed = FALSE

(* no pointer word set *)
NoPtrs == {[a \in {} |-> 0]}

(* right-sized images with a valid superblock, and wrong-sized files *)
Init ==
    /\ \/ InitWith(NoBad, PtrConfigs, InputKinds, {IMAGE_BYTES})
       \/ InitWith(NoBad, NoPtrs, InputKinds, {IMAGE_BYTES - 1, IMAGE_BYTES + 1})
    /\ fault = NoFault

(* Open with the size check comparing with < instead of != *)
Open_AcceptsLongFile ==
    /\ pc = "open"
    /\ IF file_size < IMAGE_BYTES
       THEN /\ pc' = "exit"
            /\ exit_status' = 1
            /\ UNCHANGED <<fs_image, block_ref_count>>
       ELSE /\ pc' = "sb"
            /\ fs_image' = file
            /\ block_ref_count' = NoRefs
            /\ UNCHANGED exit_status
    /\ UNCHANGED <<file, file_size, fix_errors, phase, valid, out, trace, run, file0,
                   fault, failed>>

(* lines 751..797: open, size check, read the image, bind the overlays;  *)
(* fopen is called before the size check, malloc, fread and calloc after  *)
Open ==
    /\ pc = "open"
    /\ IF fault = "fopen"
          \/ file_size /= IMAGE_BYTES
          \/ fault \in {"malloc", "fread", "calloc_block_ref_count"}
       THEN /\ pc' = "exit"
            /\ exit_status' = 1
            /\ failed' = TRUE
            /\ fault' = IF fault = "fopen" \/ file_size = IMAGE_BYTES
                        THEN NoFault ELSE fault
            /\ UNCHANGED <<fs_image, block_ref_count>>
       ELSE /\ pc' = "sb"
            /\ fs_image' = file
            /\ block_ref_count' = NoRefs
            /\ UNCHANGED <<exit_status, fault, failed>>
    /\ UNCHANGED <<file, file_size, fix_errors, phase, valid, out, trace, run, file0>>

(* the fix argument of the calls of this phase *)
FixArg == IF phase = "first" THEN fix_errors ELSE FALSE

(* PassDone with the inode bitmap pass called before the data bitmap pass *)
PassDone_InodeBitmapFirst(n, r) ==
    /\ fs_image' = r.img
    /\ valid' = [valid EXCEPT ![phase] =
                    [x \in (DOMAIN @) \cup {Passes[n]} |->
                        IF x = Passes[n] THEN r.valid ELSE @[x]]]
    /\ out' = [out EXCEPT ![phase] = @ \o r.out]
    /\ trace' = Append(trace, <<Passes[n], FixArg>>)
    /\ pc' = CASE n = 1 -> "ibm"
               [] n = 3 -> "dbm"
               [] n = 2 -> "dup"
               [] n = 4 -> "bad"
               [] OTHER -> IF phase = "first" THEN "summary" ELSE "write"
    /\ UNCHANGED <<file, file_size, fix_errors, phase, exit_status, run, file0>>

(* a pass called at position n of Passes, with result r *)
PassDone(n, r) ==
    /\ fs_image' = r.img
    /\ valid' = [valid EXCEPT ![phase] =
                    [x \in (DOMAIN @) \cup {Passes[n]} |->
                        IF x = Passes[n] THEN r.valid ELSE @[x]]]
    /\ out' = [out EXCEPT ![phase] = @ \o r.out]
    /\ trace' = Append(trace, <<Passes[n], FixArg>>)
    /\ pc' = IF n < Len(Passes) THEN Passes[n + 1]
             ELSE IF phase = "first" THEN "summary" ELSE "write"
    /\ UNCHANGED <<file, file_size, fix_errors, phase, exit_status, run, file0>>

(* "if (!p) { printf("Memory allocation failed\n"); return false; }" of a  *)
(* pass, lines 254..257 and 402..405                                       *)
AllocFailed(img) == [img |-> img, valid |-> FALSE, out |-> <<>>]

ValidateSuperblock ==
    /\ pc = "sb"
    /\ PassDone(1, validate_superblock(fs_image, FixArg))
    /\ UNCHANGED <<block_ref_count, fault, failed>>

ValidateDataBitmap ==
    /\ pc = "dbm"
    /\ IF fault = "calloc_block_used"
       THEN /\ PassDone(2, AllocFailed(fs_image))
            /\ fault' = NoFault
            /\ failed' = TRUE
       ELSE /\ PassDone(2, validate_data_bitmap(fs_image, FixArg))
            /\ UNCHANGED <<fault, failed>>
    /\ UNCHANGED block_ref_count

ValidateInodeBitmap ==
    /\ pc = "ibm"
    /\ PassDone(3, validate_inode_bitmap(fs_image, FixArg))
    /\ UNCHANGED <<block_ref_count, fault, failed>>

CheckDuplicateBlocks ==
    /\ pc = "dup"
    /\ IF fault = "calloc_inode_refs"
       THEN /\ PassDone(4, AllocFailed(fs_image))
            /\ block_ref_count' = ClearRefs(block_ref_count)
            /\ fault' = NoFault
            /\ failed' = TRUE
       ELSE /\ LET r == DupPass(fs_image, block_ref_count, FixArg)
               IN  /\ PassDone(4, r)
                   /\ block_ref_count' = r.ref
            /\ UNCHANGED <<fault, failed>>

CheckBadBlocks ==
    /\ pc = "bad"
    /\ PassDone(5, check_bad_blocks(fs_image, FixArg))
    /\ UNCHANGED <<block_ref_count, fault, failed>>

(* fs_valid with only the superblock result looked at *)
fs_valid_SuperblockOnly(ph) == valid[ph]["sb"]

(* lines 811..822: the summary, and the decision to re-run the checks *)
fs_valid(ph) == \A n \in 1 .. Len(Passes) : valid[ph][Passes[n]]

Summary ==
    /\ pc = "summary"
    /\ IF fix_errors /\ ~fs_valid("first")
       THEN phase' = "recheck" /\ pc' = "sb"
       ELSE phase' = phase /\ pc' = "cleanup"
    /\ UNCHANGED <<file, file_size, fix_errors, fs_image, block_ref_count, valid,
                   out, trace, exit_status, run, file0, fault, failed>>

(* the word addresses up to which a failed fwrite may have written: none, *)
(* the blocks before the inode table, the blocks before the data region   *)
WriteCuts == {get_block(SUPERBLOCK_NUM), get_block(INODE_TABLE_START_BLOCK_NUM),
              get_block(DATA_BLOCK_START_NUM)}

(* the file after an fwrite of img that stopped at word address cut *)
PartialWrite(old, img, cut) ==
    [a \in (DOMAIN old) \cup {x \in DOMAIN img : x < cut} |->
        IF a < cut THEN Rd(img, a) ELSE old[a]]

(* lines 834..853: the post-fix summary, then fseek and fwrite of the      *)
(* image; a failed fwrite is reported by perror and main goes on           *)
WriteBack ==
    /\ pc = "write"
    /\ IF fault = "fwrite"
       THEN /\ \E cut \in WriteCuts : file' = PartialWrite(file, fs_image, cut)
            /\ fault' = NoFault
            /\ failed' = TRUE
            /\ UNCHANGED trace
       ELSE /\ file' = fs_image
            /\ trace' = Append(trace, <<"write", FALSE>>)
            /\ UNCHANGED <<fault, failed>>
    /\ pc' = "cleanup"
    /\ UNCHANGED <<file_size, fix_errors, phase, fs_image, block_ref_count, valid,
                   out, exit_status, run, file0>>

(* Cleanup with a status that tells whether the first passes found errors *)
Cleanup_StatusFromFindings ==
    /\ pc = "cleanup"
    /\ pc' = "exit"
    /\ exit_status' = IF \A n \in 1 .. Len(Passes) : valid["first"][Passes[n]]
                      THEN 0 ELSE 1
    /\ UNCHANGED <<file, file_size, fix_errors, phase, fs_image, block_ref_count,
                   valid, out, trace, run, file0, fault, failed>>

(* lines 856..861 *)
Cleanup ==
    /\ pc = "cleanup"
    /\ pc' = "exit"
    /\ exit_status' = 0
    /\ UNCHANGED <<file, file_size, fix_errors, phase, fs_image, block_ref_count,
                   valid, out, trace, run, file0, fault, failed>>

(* the program is started again on the file a repair run left *)
Rerun ==
    /\ pc = "exit"
    /\ exit_status = 0
    /\ fix_errors
    /\ run < MaxRuns
    /\ run' = run + 1
    /\ fix_errors' \in BOOLEAN
    /\ pc' = "open"
    /\ phase' = "first"
    /\ fs_image' = NoImage
    /\ block_ref_count' = NoRefs
    /\ valid' = NoResults
    /\ out' = NoOut
    /\ trace' = <<>>
    /\ exit_status' = -1
    /\ file0' = file
    /\ failed' = FALSE
    /\ UNCHANGED <<file, file_size, fault>>

Next ==
    \/ Open
    \/ ValidateSuperblock
    \/ ValidateDataBitmap
    \/ ValidateInodeBitmap
    \/ CheckDuplicateBlocks
    \/ CheckBadBlocks
    \/ Summary
    \/ WriteBack
    \/ Cleanup
    \/ Rerun

Spec == Init /\ [][Next]_vars

(* inputs with every set of wrong superblock fields: each wrong field 0,   *)
(* or each wrong field one more than required                              *)
SbBadSets ==
    UNION {{[k \in S |-> 0], [k \in S |-> SbRequired[k] + 1]}
              : S \in SUBSET (1 .. Len(SbRequired))}

InitSB ==
    /\ InitWith(SbBadSets, NoPtrs, {<<Live, "consistent">>, <<Live, "empty">>},
                {IMAGE_BYTES})
    /\ fault = NoFault

SpecSB == InitSB /\ [][Next]_vars

(* ======================= properties ==================================== *)
(* a run of the program in repair mode has ended with status 0 *)
RepairDone == pc = "exit" /\ exit_status = 0 /\ fix_errors
(* a run in check-only mode has ended with status 0 *)
CheckOnlyDone == pc = "exit" /\ exit_status = 0 /\ ~fix_errors

Inodes == 0 .. INODE_COUNT - 1
DataBlocks == DATA_BLOCK_START_NUM .. TOTAL_BLOCKS - 1

(* C1: after a repair-mode run, inode-bitmap bit i of the final image is   *)
(* set iff inode i is live, for every i in [0, 80).                        *)
C1_InodeBitmapAgrees ==
    RepairDone =>
        \A i \in Inodes :
            is_bit_set(file, inode_bitmap, i) <=> is_inode_valid(file, i)

(* C2: after a repair-mode run, every data block whose data-bitmap bit is  *)
(* set in the final image is a top-level pointer of some live inode of the *)
(* final image.                                                            *)
C2_MarkedIsTopLevel ==
    RepairDone =>
        \A b \in DataBlocks :
            is_bit_set(file, data_bitmap, b - DATA_BLOCK_START_NUM)
                => b \in TopLevelSet(file)

(* the nine superblock fields of img hold the required values *)
SbOk(img) ==
    \A k \in 1 .. Len(SbRequired) : Rd(img, SbFieldAddr(k)) = SbRequired[k]

(* C3: after the superblock validator in repair mode, and in the file      *)
(* after a repair-mode run, the nine superblock fields hold the required   *)
(* values whatever they held on entry; the validator returns ok iff all    *)
(* nine fields matched on entry.                                           *)
C3_SuperblockRepaired ==
    /\ (fix_errors /\ "sb" \in DOMAIN valid["first"]) => SbOk(fs_image)
    /\ RepairDone => SbOk(file)
    /\ "sb" \in DOMAIN valid["first"] => (valid["first"]["sb"] <=> SbOk(file0))
    /\ "sb" \in DOMAIN valid["recheck"] => (valid["recheck"]["sb"] <=> SbOk(fs_image))

(* a repair-mode run on a superblock with a wrong field has ended *)
C3_Witness ==
    /\ RepairDone
    /\ ~SbOk(file0)
    /\ ~valid["first"]["sb"]
    /\ SbOk(file)

(* C4: after a repair-mode run, every non-zero block number of the pointer *)
(* graph of every inode that is live in the final image is below 64.       *)
C4_NoBadBlockLeft ==
    RepairDone =>
        \A i \in LiveInodes(file) :
            \A b \in Range(Graph(file, i)) : b < TOTAL_BLOCKS

(* number of occurrences of b in sequence s *)
Occurrences(s, b) == Cardinality({n \in 1 .. Len(s) : s[n] = b})

(* the re-audit of this run has been done and reported no error *)
ReauditClean ==
    /\ DOMAIN valid["recheck"] = Range(Passes)
    /\ fs_valid("recheck")

(* C5: when a repair-mode run ends with a re-audit that reports no error,  *)
(* no data-region block occurs twice in the pointer graph of a live inode  *)
(* and no block occurs in the pointer graphs of two live inodes.           *)
C5_NoDuplicateLeft ==
    (RepairDone /\ ReauditClean) =>
        /\ \A i \in LiveInodes(file) : \A b \in DataBlocks :
               Occurrences(Graph(file, i), b) <= 1
        /\ \A i, j \in LiveInodes(file) :
               i /= j => Range(Graph(file, i)) \cap Range(Graph(file, j)) = {}

(* the five invariants of spec section 3 *)
Consistent(img) ==
    /\ SbOk(img)
    /\ \A i \in Inodes : is_bit_set(img, inode_bitmap, i) <=> is_inode_valid(img, i)
    /\ \A b \in DataBlocks :
           is_bit_set(img, data_bitmap, b - DATA_BLOCK_START_NUM)
               <=> b \in ReferenceSet(img)
    /\ \A i \in LiveInodes(img) : \A b \in Range(Graph(img, i)) :
           Occurrences(Graph(img, i), b) <= 1
    /\ \A i, j \in LiveInodes(img) :
           i /= j => Range(Graph(img, i)) \cap Range(Graph(img, j)) = {}
    /\ \A i \in LiveInodes(img) : \A b \in Range(Graph(img, i)) : b \in DataBlocks

(* C6: a repair-mode run on an image that satisfies the five invariants    *)
(* reports nothing and leaves the image unchanged.                         *)
C6_ConsistentUntouched ==
    (RepairDone /\ run = 1 /\ Consistent(file0)) =>
        /\ out["first"] = <<>>
        /\ file = file0

(* the diagnostics of the five passes called in check-only mode on img, in *)
(* the order main calls them                                               *)
CheckOnlyFindings(img) ==
    validate_superblock(img, FALSE).out
        \o validate_data_bitmap(img, FALSE).out
        \o validate_inode_bitmap(img, FALSE).out
        \o check_duplicate_blocks(img, FALSE).out
        \o check_bad_blocks(img, FALSE).out

(* C7: a second repair-mode run right after a repair-mode run reports what *)
(* a check-only run on the same image reports, and changes no byte.        *)
C7_FixedPointInOneRun ==
    (RepairDone /\ run = 2) =>
        /\ out["first"] = CheckOnlyFindings(file0)
        /\ file = file0

(* C8: a pass called with fix = false leaves the image in memory           *)
(* unchanged, and a check-only run never changes the file.                 *)
C8_CheckOnlyNeverMutates ==
    [][/\ (pc \in Range(Passes) /\ ~FixArg) => fs_image' = fs_image
       /\ (~fix_errors /\ pc /= "exit") => file' = file]_vars

(* a check-only run that reported a duplicate has ended with the image in  *)
(* memory and the file as they were                                        *)
C8_Witness ==
    /\ CheckOnlyDone
    /\ ~valid["first"]["dup"]
    /\ out["first"] /= <<>>
    /\ fs_image = file0
    /\ file = file0

(* the calls of a phase: the five passes, each once, with fix = f *)
IsPhase(s, f) ==
    /\ Len(s) = Len(Passes)
    /\ {s[n][1] : n \in 1 .. Len(s)} = Range(Passes)
    /\ \A n \in 1 .. Len(s) : s[n][2] = f

(* the five passes with repair, the five passes without, one write *)
FullRepairTrace(s) ==
    /\ Len(s) = 2 * Len(Passes) + 1
    /\ IsPhase(SubSeq(s, 1, Len(Passes)), TRUE)
    /\ IsPhase(SubSeq(s, Len(Passes) + 1, 2 * Len(Passes)), FALSE)
    /\ s[Len(s)][1] = "write"

(* C9 as stated: every repair-mode run on a right-sized image does the     *)
(* five passes with repair, then the five passes in check-only mode, then  *)
(* exactly one write, whether or not the repair passes found anything.     *)
C9_AlwaysReauditAndWrite ==
    RepairDone => FullRepairTrace(trace)

(* C9 as amended: a repair-mode run in which a repair pass reported an     *)
(* error does the five passes with repair, the five passes in check-only   *)
(* mode and exactly one write, in this order; a run in which no repair     *)
(* pass reported an error does the five passes with repair only, with no   *)
(* re-audit and no write.                                                  *)
C9_ReauditAndWriteAfterFindings ==
    RepairDone =>
        IF \E n \in 1 .. Len(Passes) : ~valid["first"][Passes[n]]
        THEN FullRepairTrace(trace)
        ELSE IsPhase(trace, TRUE) /\ file = file0

(* a repair-mode run that found errors has re-audited and written *)
C9_Witness ==
    /\ RepairDone
    /\ out["first"] /= <<>>
    /\ FullRepairTrace(trace)
    /\ file = fs_image

(* C10: a file whose length is not 262144 bytes makes the program exit     *)
(* with status 1 before any pass runs and without a write, in both modes.  *)
C10_WrongSizeRejected ==
    file_size /= IMAGE_BYTES =>
        /\ pc \in {"open", "exit"}
        /\ pc = "exit" => exit_status = 1
        /\ trace = <<>>
        /\ fs_image = NoImage
        /\ file = file0

(* the program has exited on a file of the wrong size, in repair mode *)
C10_Witness ==
    /\ file_size /= IMAGE_BYTES
    /\ fix_errors
    /\ pc = "exit"
    /\ exit_status = 1

(* ---------------- operational errors ----------------------------------- *)
(* inputs of the runs with a failing library call: at most the direct      *)
(* pointer of inode 0 set                                                  *)
OpsPtrs == {p \in PtrConfigs : DOMAIN p \subseteq {FieldAddr(0, OFF_direct_block)}}

InitOps ==
    /\ InitWith(NoBad, OpsPtrs, {<<Live, "consistent">>, <<Live, "empty">>},
                {IMAGE_BYTES, IMAGE_BYTES + 1})
    /\ fault \in Faults

SpecOps == InitOps /\ [][Next]_vars

(* C11: an operational error (a failed open, read, write or allocation,    *)
(* the allocations inside the data-bitmap and duplicate passes included,   *)
(* or a wrong image size) makes the program exit with status 1 at once:    *)
(* no pass and no write-back runs after it.                                *)
C11_OperationalErrorIsFatal ==
    failed => (pc = "exit" /\ exit_status = 1)

(* ---------------- termination ------------------------------------------ *)
(* the steps of one run of the program: main is sequential and no step     *)
(* waits for anything, so a run that can take a step takes it. A step is   *)
(* possible exactly while pc is not "exit", and every step changes pc, so  *)
(* weak fairness of RunStep is: always eventually the run has ended or a   *)
(* step is taken                                                           *)
RunStep ==
    \/ Open
    \/ ValidateSuperblock
    \/ ValidateDataBitmap
    \/ ValidateInodeBitmap
    \/ CheckDuplicateBlocks
    \/ CheckBadBlocks
    \/ Summary
    \/ WriteBack
    \/ Cleanup

(* inputs of the runs checked for termination: the three indirect         *)
(* pointers of inode 0 and entry 0 of block 8, each 0, 8 (block 8 may list *)
(* itself under any of the three) or a block number past the image         *)
LivePtrs ==
    {p \in PtrConfigs :
        /\ DOMAIN p \subseteq {FieldAddr(0, TopLevelOffsets[n]) : n \in 2 .. 4}
                                  \cup {get_block(DATA_BLOCK_START_NUM)}
        /\ \A a \in DOMAIN p : p[a] \in {DATA_BLOCK_START_NUM, 100}}

InitLive ==
    /\ InitWith(NoBad, LivePtrs, {<<Live, "consistent">>, <<Live, "empty">>},
                {IMAGE_BYTES})
    /\ fault = NoFault

RunFairness == []<>(pc = "exit") \/ []<><<RunStep>>_vars

SpecLive == InitLive /\ [][Next]_vars /\ RunFairness

(* the first five calls of this run are the five passes *)
AllFiveRan ==
    /\ Len(trace) >= Len(Passes)
    /\ IsPhase(SubSeq(trace, 1, Len(Passes)), fix_errors)

(* some indirect pointer of inode 0 names block 8 and block 8 lists itself *)
Cyclic(img) ==
    /\ Rd(img, get_block(DATA_BLOCK_START_NUM)) = DATA_BLOCK_START_NUM
    /\ \E n \in 2 .. 4 :
           Rd(img, FieldAddr(0, TopLevelOffsets[n])) = DATA_BLOCK_START_NUM

(* C12: in both modes a run on a right-sized image ends with exit status 0 *)
(* after the five passes, whatever is found or remains, also when the      *)
(* pointer graph is cyclic.                                                *)
C12_RunsToCompletion ==
    (pc = "open" /\ file_size = IMAGE_BYTES)
        ~> (pc = "exit" /\ exit_status = 0 /\ AllFiveRan)

(* a check-only run on an image with a cyclic pointer graph has ended *)
C12_Witness ==
    /\ CheckOnlyDone
    /\ Cyclic(file)
    /\ LiveInodes(file) /= {}
    /\ AllFiveRan

(* ---------------- order of the passes ---------------------------------- *)
(* the passes called so far follow order, phase after phase *)
FollowsOrder(order) ==
    \A n \in 1 .. Len(trace) :
        trace[n][1] /= "write" => trace[n][1] = order[((n - 1) % Len(order)) + 1]

(* the image after the five passes, each given the image the pass before   *)
(* it left, called in the order sb, p2, p3, dup, bad with argument fix      *)
AfterFive(img, p2(_, _), p3(_, _), fix) ==
    LET a == validate_superblock(img, fix).img
        b == p2(a, fix).img
        c == p3(b, fix).img
        d == check_duplicate_blocks(c, fix).img
    IN  check_bad_blocks(d, fix).img

(* C13 as stated: in the first run and in the re-audit the passes are      *)
(* called in the order superblock, inode bitmap, data bitmap, duplicate    *)
(* blocks, bad blocks.                                                     *)
C13_SpecOrder == FollowsOrder(<<"sb", "ibm", "dbm", "dup", "bad">>)

(* C13 as amended: in the first run and in the re-audit the passes are     *)
(* called in the order superblock, data bitmap, inode bitmap, duplicate    *)
(* blocks, bad blocks, and each pass works on the image the passes before  *)
(* it left.                                                                *)
C13_CodeOrder ==
    /\ FollowsOrder(<<"sb", "dbm", "ibm", "dup", "bad">>)
    /\ (pc = "summary" /\ ~failed) =>
           fs_image = AfterFive(file0, validate_data_bitmap,
                                validate_inode_bitmap, fix_errors)

(* a repair run in which both bitmap passes found errors has re-audited *)
C13_Witness ==
    /\ RepairDone
    /\ ~valid["first"]["dbm"]
    /\ ~valid["first"]["ibm"]
    /\ Len(trace) = 2 * Len(Passes) + 1

(* ---------------- inputs for the duplicate pass ------------------------ *)
(* (links_count, dtime) of a live inode whose links_count is the number of *)
(* a data block                                                            *)
LiveNine == <<9, 0>>

(* the pointer words of these inputs and the values of each: the four      *)
(* pointers of inode 0, the single-indirect pointer of inode 1, entry 0 of *)
(* blocks 8 and 9; containers that list each other, a block listed twice,  *)
(* and a block of the inode table listed in a container                    *)
DupSlotVals ==
    (FieldAddr(0, OFF_direct_block) :> {0, 9})
      @@ (FieldAddr(0, OFF_single_indirect) :> {0, 8})
      @@ (FieldAddr(0, OFF_double_indirect) :> {0, 8, 9})
      @@ (FieldAddr(0, OFF_triple_indirect) :> {0, 9})
      @@ (FieldAddr(1, OFF_single_indirect) :> {0, 8})
      @@ (get_block(8) :> {0, INODE_TABLE_START_BLOCK_NUM, 8, 9, 10})
      @@ (get_block(9) :> {0, INODE_TABLE_START_BLOCK_NUM, 8})

DupPtrConfigs ==
    {p \in [DOMAIN DupSlotVals -> UNION {DupSlotVals[a] : a \in DOMAIN DupSlotVals}] :
        \A a \in DOMAIN p : p[a] \in DupSlotVals[a]}

InitDup ==
    /\ InitWith(NoBad, DupPtrConfigs, {<<Live, "empty">>, <<LiveNine, "empty">>},
                {IMAGE_BYTES})
    /\ fault = NoFault

SpecDup == InitDup /\ [][Next]_vars

(* ---------------- the visit rule of spec section 4.5 ------------------- *)
(* the walk of the visit rule over img: seen is the set of blocks seen,    *)
(* first the addresses of the slots through which a block was first seen.  *)
(* The slot at address a is visited with depth container levels below it;  *)
(* a block outside the data region is ignored, a block already seen is a   *)
(* later reference, a block first seen is recorded and, when it is a       *)
(* container, its entries are visited                                      *)
RECURSIVE VisitSlot(_, _, _, _), VisitEntries(_, _, _, _)
VisitSlot(w, img, a, depth) ==
    LET b == Rd(img, a)
    IN  IF b = 0 \/ ~InDataRegion(b) \/ b \in w.seen THEN w
        ELSE LET m == [seen |-> w.seen \cup {b}, first |-> w.first \cup {a}]
             IN  IF depth = 0 THEN m
                 ELSE VisitEntries(m, img, BlockWords(img, get_block(b)), depth - 1)
VisitEntries(w, img, addrs, depth) ==
    IF addrs = <<>> THEN w
    ELSE VisitEntries(VisitSlot(w, img, Head(addrs), depth), img, Tail(addrs), depth)

(* the four pointers of the live inodes, in ascending inode order *)
RECURSIVE VisitInodes(_, _, _)
VisitInodes(w, img, inodes) ==
    IF inodes = <<>> THEN w
    ELSE LET i == Head(inodes)
             w1 == VisitSlot(w, img, FieldAddr(i, OFF_direct_block), 0)
             w2 == VisitSlot(w1, img, FieldAddr(i, OFF_single_indirect), 1)
             w3 == VisitSlot(w2, img, FieldAddr(i, OFF_double_indirect), 2)
             w4 == VisitSlot(w3, img, FieldAddr(i, OFF_triple_indirect), 3)
         IN  VisitInodes(w4, img, Tail(inodes))

(* the slots through which the blocks of img are first seen *)
FirstSeenSlots(img) ==
    VisitInodes([seen |-> {}, first |-> {}], img, SortedSeq(LiveInodes(img))).first

(* C14: the duplicate pass in repair mode zeroes later references only:    *)
(* every slot through which a block is first seen holds the same block     *)
(* after the pass, also when the duplicate is a container listed in a      *)
(* double- or triple-indirect block.                                       *)
C14_FirstSeenWins ==
    [][(pc = "dup" /\ FixArg) =>
          \A a \in FirstSeenSlots(fs_image) : Rd(fs_image', a) = Rd(fs_image, a)]_vars

(* the addresses of the four pointer slots of the inodes *)
PointerSlots ==
    {FieldAddr(i, TopLevelOffsets[n]) : i \in Inodes, n \in 1 .. 4}

(* C15: the duplicate pass ignores a non-zero pointer outside [8, 64) at   *)
(* every level: it does not zero it and does not read the block it names   *)
(* as a container, so the pass changes no word of blocks 0..7 other than   *)
(* the pointer slots of inodes.                                            *)
C15_DupIgnoresOutsideDataRegion ==
    [][pc = "dup" =>
          \A a \in DOMAIN fs_image :
              /\ (a < get_block(DATA_BLOCK_START_NUM) /\ a \notin PointerSlots)
                     => Rd(fs_image', a) = fs_image[a]
              /\ (fs_image[a] /= 0 /\ ~InDataRegion(fs_image[a]))
                     => Rd(fs_image', a) = fs_image[a]]_vars

(* C16: every call of the duplicate pass starts with block_ref_count and   *)
(* inode_refs cleared: what it reports, returns and does is what a first   *)
(* call on the same image reports, returns and does, whatever calls were   *)
(* made before.                                                            *)
C16_DupStartsCleared ==
    [][pc = "dup" =>
          LET r == check_duplicate_blocks(fs_image, FixArg)
          IN  /\ out'[phase] = out[phase] \o r.out
              /\ valid'[phase]["dup"] = r.valid
              /\ fs_image' = r.img
              /\ block_ref_count' = r.ref]_vars

(* the duplicate pass has been called again in the re-audit after a call   *)
(* in repair mode that found duplicates and left blocks marked             *)
C16_Witness ==
    /\ phase = "recheck"
    /\ pc = "bad"
    /\ fix_errors
    /\ ~valid["first"]["dup"]
    /\ block_ref_count /= {}


(* ---------------- frame of a repair run --------------------------------- *)
(* the words of blocks 0..7 a repair run may change in img, with the       *)
(* number of low bits of the word it may change: the nine superblock       *)
(* fields, inode-bitmap bits 0..79, data-bitmap bits 0..55 and the four    *)
(* pointer slots of the live inodes (spec sections 3 and 4)                *)
RepairableBits(img, a) ==
    IF a \in {SbFieldAddr(k) : k \in 1 .. Len(SbRequired)} THEN WORD_BITS
    ELSE IF a >= inode_bitmap /\ a < inode_bitmap + entries_per_block
    THEN IF (a - inode_bitmap + 1) * WORD_BITS <= INODE_COUNT THEN WORD_BITS
         ELSE IF (a - inode_bitmap) * WORD_BITS >= INODE_COUNT THEN 0
         ELSE INODE_COUNT - (a - inode_bitmap) * WORD_BITS
    ELSE IF a >= data_bitmap /\ a < data_bitmap + entries_per_block
    THEN IF (a - data_bitmap + 1) * WORD_BITS <= DATA_BLOCKS_COUNT THEN WORD_BITS
         ELSE IF (a - data_bitmap) * WORD_BITS >= DATA_BLOCKS_COUNT THEN 0
         ELSE DATA_BLOCKS_COUNT - (a - data_bitmap) * WORD_BITS
    ELSE IF a \in {FieldAddr(i, TopLevelOffsets[n]) : i \in LiveInodes(img), n \in 1 .. 4}
    THEN WORD_BITS
    ELSE 0

(* C17: across a repair run the only bytes of blocks 0..7 that differ from *)
(* the input are the nine superblock fields, inode-bitmap bits 0..79,      *)
(* data-bitmap bits 0..55 and the four pointer slots of live inodes, also  *)
(* when a pointer of a live inode names a block in 1..7.                   *)
C17_OnlyRepairableBitsChange ==
    RepairDone =>
        \A a \in {x \in DOMAIN file \cup DOMAIN file0 : x < get_block(DATA_BLOCK_START_NUM)} :
            LET n == RepairableBits(file0, a)
            IN  n = WORD_BITS \/ Rd(file, a) \div Pow2(n) = Rd(file0, a) \div Pow2(n)

(* ---------------- what the bad block checker calls bad ------------------ *)
(* the pointers of the live inodes of img, and the entries of the          *)
(* containers reached from them, that are not block numbers of the image   *)
BadPointers(img) ==
    {p \in UNION {Range(Graph(img, i)) : i \in LiveInodes(img)} : p >= TOTAL_BLOCKS}

(* the diagnostics of the bad block checker in a sequence of diagnostics *)
BadFindings(s) ==
    {s[n] : n \in {m \in 1 .. Len(s) : s[m][1] \in Range(BadTopKind) \cup
                      {"bad_data_in_single", "bad_indirect_in_double",
                       "bad_data_in_double", "bad_double_in_triple",
                       "bad_single_in_triple", "bad_data_in_triple"}}}

(* C18: the bad block pass treats a pointer as bad exactly when it is      *)
(* >= 64: in check-only mode it returns "errors found" iff some top-level  *)
(* pointer of a live inode, or some entry of a container it descends into, *)
(* is >= 64; a pointer in [1, 8) is never reported by the pass and never   *)
(* sets an entry of the used array of the data bitmap pass.                *)
C18_BadIffPastEnd ==
    [][/\ (pc = "bad" /\ ~fix_errors) =>
              (valid'[phase]["bad"] <=> BadPointers(fs_image) = {})
       /\ pc = "bad" =>
              \A f \in BadFindings(out'[phase]) : f[3] >= TOTAL_BLOCKS
       /\ pc = "dbm" =>
              block_used(fs_image) =
                  {p - DATA_BLOCK_START_NUM : p \in TopLevelSet(fs_image) \cap DataBlocks}
      ]_vars

(* C18 witness: a check-only run has ended in which a live inode's         *)
(* single-indirect pointer names block 3, the pass descended into it and   *)
(* reported an entry >= 64 of it.                                          *)
C18_Witness ==
    /\ CheckOnlyDone
    /\ INODE_TABLE_START_BLOCK_NUM \in TopLevelSet(file)
    /\ ~valid["first"]["bad"]
    /\ \E f \in BadFindings(out["first"]) : f[1] = "bad_data_in_single"

(* ---------------- inputs for the two bitmap passes ---------------------- *)
(* the pointer words of these inputs and the values of each: top-level     *)
(* pointers to the first and the last data block, to a block of the inode  *)
(* table, and a container whose entry 0 lists a leaf                       *)
BitmapSlotVals ==
    (FieldAddr(0, OFF_direct_block) :> {0, DATA_BLOCK_START_NUM + 1, TOTAL_BLOCKS - 1})
      @@ (FieldAddr(0, OFF_single_indirect) :> {0, DATA_BLOCK_START_NUM})
      @@ (FieldAddr(1, OFF_single_indirect) :>
              {0, INODE_TABLE_START_BLOCK_NUM, DATA_BLOCK_START_NUM})
      @@ (FieldAddr(1, OFF_double_indirect) :> {0, TOTAL_BLOCKS - 1})
      @@ (get_block(DATA_BLOCK_START_NUM) :>
              {0, DATA_BLOCK_START_NUM + 1, DATA_BLOCK_START_NUM + 2})

BitmapPtrConfigs ==
    {p \in [DOMAIN BitmapSlotVals ->
               UNION {BitmapSlotVals[a] : a \in DOMAIN BitmapSlotVals}] :
        \A a \in DOMAIN p : p[a] \in BitmapSlotVals[a]}

(* first word of the inode bitmap: no bit, or the bits of inodes 0 and 1 *)
IbmWords == {0, BitsWord(ModelInodes)}
(* first word of the data bitmap: no bit, the bit of block 9, or the bits  *)
(* of blocks 8, 9 and 10                                                   *)
DbmWords == {0, BitsWord({1}), BitsWord({0, 1, 2})}
(* second word of the data bitmap: no bit, bit 56, or bits 55 and 56 *)
DbmHighWords ==
    {0, BitsWord({DATA_BLOCKS_COUNT - WORD_BITS}),
     BitsWord({DATA_BLOCKS_COUNT - WORD_BITS - 1, DATA_BLOCKS_COUNT - WORD_BITS})}

(* a right-sized image with a valid superblock, inode 0 live or deleted,   *)
(* inode 1 live, and bitmaps that need not agree with the inodes           *)
InitBitmap ==
    /\ \E ptrs \in BitmapPtrConfigs, lv0 \in {Live, Deleted},
          ibm \in IbmWords, dbm \in DbmWords, high \in DbmHighWords :
          file = (data_bitmap + 1 :> high)
                     @@ MkImage([k \in {} |-> 0], ptrs, <<lv0, Live>>, ibm, dbm)
    /\ file_size = IMAGE_BYTES
    /\ fix_errors \in BOOLEAN
    /\ pc = "open"
    /\ phase = "first"
    /\ fs_image = NoImage
    /\ block_ref_count = NoRefs
    /\ valid = NoResults
    /\ out = NoOut
    /\ trace = <<>>
    /\ exit_status = -1
    /\ run = 1
    /\ file0 = file
    /\ failed = FALSE
    /\ fault = NoFault

SpecBitmap == InitBitmap /\ [][Next]_vars

(* the diagnostics a pass appended to s, giving t *)
Appended(s, t) == {t[n] : n \in Len(s) + 1 .. Len(t)}

(* C19: right after the data bitmap pass in repair mode, for every i in    *)
(* [0, 56) data-bitmap bit i is set iff block i + 8 is one of the four     *)
(* top-level pointers of some live inode; a set bit of a block listed only *)
(* inside a container is reported and cleared; data-bitmap bits >= 56 and  *)
(* every other word of the image are left unchanged.                       *)
C19_DataBitmapIsTopLevel ==
    [][(pc = "dbm" /\ FixArg) =>
          /\ \A i \in 0 .. DATA_BLOCKS_COUNT - 1 :
                is_bit_set(fs_image', data_bitmap, i)
                    <=> (i + DATA_BLOCK_START_NUM) \in TopLevelSet(fs_image')
          /\ \A b \in (ReferenceSet(fs_image) \cap DataBlocks) \ TopLevelSet(fs_image) :
                is_bit_set(fs_image, data_bitmap, b - DATA_BLOCK_START_NUM) =>
                    /\ Finding("dbm_unreferenced", b, 0, 0)
                           \in Appended(out[phase], out'[phase])
                    /\ ~is_bit_set(fs_image', data_bitmap, b - DATA_BLOCK_START_NUM)
          /\ \A a \in DOMAIN fs_image \cup DOMAIN fs_image' :
                LET n == IF a = data_bitmap THEN WORD_BITS
                         ELSE IF a = data_bitmap + 1 THEN DATA_BLOCKS_COUNT - WORD_BITS
                         ELSE 0
                IN  n = WORD_BITS
                      \/ Rd(fs_image', a) \div Pow2(n) = Rd(fs_image, a) \div Pow2(n)
      ]_vars

(* C19 witness: the repair-mode data bitmap pass has just run on an image  *)
(* whose data bitmap marked bit 56 and a block listed only inside a        *)
(* container; the bit of the leaf is now clear, bit 56 still set, and the  *)
(* bit of a top-level pointer has been set.                                *)
C19_Witness ==
    /\ pc = "ibm" /\ phase = "first" /\ fix_errors
    /\ is_bit_set(file0, data_bitmap, DATA_BLOCKS_COUNT)
    /\ is_bit_set(fs_image, data_bitmap, DATA_BLOCKS_COUNT)
    /\ \E b \in (ReferenceSet(file0) \cap DataBlocks) \ TopLevelSet(file0) :
          /\ is_bit_set(file0, data_bitmap, b - DATA_BLOCK_START_NUM)
          /\ ~is_bit_set(fs_image, data_bitmap, b - DATA_BLOCK_START_NUM)
    /\ \E b \in TopLevelSet(file0) \cap DataBlocks :
          /\ ~is_bit_set(file0, data_bitmap, b - DATA_BLOCK_START_NUM)
          /\ is_bit_set(fs_image, data_bitmap, b - DATA_BLOCK_START_NUM)

(* C20: the inode bitmap pass and the data bitmap pass commute: in repair  *)
(* mode the data bitmap pass followed by the inode bitmap pass, as main    *)
(* calls them, leaves the image, and returns the two results and the two   *)
(* lists of diagnostics, that the inode bitmap pass followed by the data   *)
(* bitmap pass gives from the same image.                                  *)
C20_BitmapPassesCommute ==
    (pc = "dup" /\ phase = "first" /\ fix_errors) =>
        LET sb == validate_superblock(file0, TRUE)
            ibm == validate_inode_bitmap(sb.img, TRUE)
            dbm == validate_data_bitmap(ibm.img, TRUE)
        IN  /\ fs_image = dbm.img
            /\ valid["first"]["ibm"] = ibm.valid
            /\ valid["first"]["dbm"] = dbm.valid
            /\ out["first"] = sb.out \o dbm.out \o ibm.out

(* C20 witness: both bitmap passes have run in repair mode and each found  *)
(* and repaired a mismatch.                                                *)
C20_Witness ==
    /\ pc = "dup" /\ phase = "first" /\ fix_errors
    /\ ~valid["first"]["ibm"]
    /\ ~valid["first"]["dbm"]
    /\ Rd(fs_image, inode_bitmap) /= Rd(file0, inode_bitmap)
    /\ Rd(fs_image, data_bitmap) /= Rd(file0, data_bitmap)

(* ---------------- repair only removes references ----------------------- *)
(* the words that hold block numbers: the four pointer slots of every      *)
(* inode and every entry of every block of the data region                 *)
IsReferenceWord(a) ==
    \/ /\ a >= inode_table
       /\ a < InodeAddr(INODE_COUNT)
       /\ (a - inode_table) % inode_words \in Range(TopLevelOffsets)
    \/ /\ a >= get_block(DATA_BLOCK_START_NUM)
       /\ a < TOTAL_BLOCKS * entries_per_block

(* every reference word of img holds its value in img0 or 0 *)
OnlyRemoved(img0, img) ==
    \A a \in {x \in DOMAIN img0 \cup DOMAIN img : IsReferenceWord(x)} :
        Rd(img, a) \in {0, Rd(img0, a)}

(* C21: repair only ever removes references: in a repair-mode run, after   *)
(* any sequence of passes, every inode pointer slot and every entry of     *)
(* every data-region block holds its value from the input image or 0, in   *)
(* the image in memory and in the file.                                    *)
C21_RepairOnlyRemoves ==
    fix_errors =>
        /\ fs_image /= NoImage => OnlyRemoved(file0, fs_image)
        /\ OnlyRemoved(file0, file)

(* C21 witness: a repair run has ended and written a file in which a       *)
(* pointer slot of an inode and an entry of a data block that were not 0   *)
(* are 0, and another pointer slot still holds its non-zero input value.   *)
C21_Witness ==
    /\ RepairDone
    /\ \E a \in DOMAIN file0 :
          /\ a < get_block(DATA_BLOCK_START_NUM) /\ IsReferenceWord(a)
          /\ Rd(file0, a) /= 0 /\ Rd(file, a) = 0
    /\ \E a \in DOMAIN file0 :
          /\ a >= get_block(DATA_BLOCK_START_NUM)
          /\ Rd(file0, a) /= 0 /\ Rd(file, a) = 0
    /\ \E a \in DOMAIN file0 :
          /\ a < get_block(DATA_BLOCK_START_NUM) /\ IsReferenceWord(a)
          /\ Rd(file0, a) /= 0 /\ Rd(file, a) = Rd(file0, a)
=============================================================================
